---- MODULE Spec2Model ----
(***************************************************************************)
(* A model of the Weather Dashboard (src/app.py): the Streamlit script     *)
(* (sidebar input, "Get Weather" button, geocode_city behind               *)
(* st.cache_data(ttl=3600), display_weather_dashboard), the WMO code       *)
(* lookups of the presenter, the next-8-hours slice and the positional     *)
(* projections of WeatherApiClient.                                        *)
(*                                                                         *)
(* Text is a sequence of one-character strings, so that truthiness,        *)
(* whitespace and str.split are computed and not assumed.  A code point    *)
(* outside ASCII is one element written "U+XXXX".                          *)
(***************************************************************************)
EXTENDS Integers, Sequences, FiniteSets, TLC

VARIABLES
    \* ---- the Streamlit script --------------------------------------------
    city_input,   \* value of st.sidebar.text_input
    pc,           \* position of the script run: "idle", "geocode", "dashboard"
    now,          \* the clock st.cache_data reads, in seconds
    cache,        \* st.cache_data store of geocode_city: name -> entry
    geo_info,     \* what geocode_city handed the script in this run
    messages,     \* what this run has put on the page, in order
    calls,        \* the calls this run has made, in order
    netOutcome,   \* outcome of this run's requests.get: "none" when not issued
    lastNet,      \* history: the last completed network lookup per name
    \* ---- the WMO code lookups of display_weather_dashboard --------------
    weather_code, \* the integer code a row or the snapshot carries
    wmo_pc,       \* "render" before the lookups, "done" after, "off" when unused
    weather_desc, \* current weather: the Status text
    hour_icon,    \* next-hours card: the icon
    day_desc,     \* 7-day outlook: weather_desc
    day_icon,     \* 7-day outlook: weather_icon
    \* ---- WeatherApiClient.get_processed_data ----------------------------
    proj_pc,      \* "start", "done", or "raised" when a projection raised
    request,      \* the params handed to weather_api
    response,     \* responses[0]
    decode_lists, \* the params handed to the _process_* methods
    current_data, \* _process_current_data's dict
    hourly_df,    \* _process_hourly_data's frame: column name -> values
    daily_df,     \* _process_daily_data's frame: column name -> values
    daily_paths,  \* history: the accessor used for each position of the daily list
    \* ---- the "Next 8 Hours" section of display_weather_dashboard ---------
    next_pc,      \* "render" before the section, "done" after, "off" when unused
    hourly_rows,  \* hourly_df, row by row
    local_tz,     \* info['timezone']
    now_local,    \* pd.to_datetime('now', utc=True).tz_convert(local_tz)
    next_hours_df \* the rows of the cards

appVars == <<city_input, pc, now, cache, geo_info, messages, calls, netOutcome, lastNet>>

wmoVars == <<weather_code, wmo_pc, weather_desc, hour_icon, day_desc, day_icon>>

projVars ==
    <<proj_pc, request, response, decode_lists, current_data, hourly_df, daily_df, daily_paths>>

nextVars == <<next_pc, hourly_rows, local_tz, now_local, next_hours_df>>

vars == <<appVars, wmoVars, projVars, nextVars>>

\* What each part of the program leaves alone.
notApp == <<wmoVars, projVars, nextVars>>
notWmo == <<appVars, projVars, nextVars>>
notProj == <<appVars, wmoVars, nextVars>>
notNext == <<appVars, wmoVars, projVars>>

\* ---------------------------------------------------------------- text
Space == " "

\* Python truthiness of a str: `not s` is true exactly for the empty string.
Truthy(s) == Len(s) > 0

Range(s) == {s[i] : i \in 1..Len(s)}

\* ---------------------------------------------------------------- bounds
\* Longest all-space input the user types.
MaxSpaces == 1
\* The clock stops advancing here.
MaxTime == 7200
\* Weather codes run from -1 to MaxCode.
MaxCode == 100
\* A series spans at most MaxSpan seconds, in steps of at most MaxInterval.
MaxSpan == 5
MaxInterval == 3
\* Where a series may start, and what the service's readings start from.
Starts == {0, 7}
\* The hourly table shown has at most MaxRows rows; the wall clock reads at most MaxNow.
MaxRows == 24
MaxNow == 80
Seeds == {0, 3}

\* ---------------------------------------------------------------- geocoding
Amritsar == <<"A", "m", "r", "i", "t", "s", "a", "r">>
Nonsense == <<"z", "z", "z">>

Spaces(n) == [i \in 1..n |-> Space]

\* What the user may leave in the text box.
CityInputs == {<<>>, Amritsar, Nonsense} \cup {Spaces(n) : n \in 1..MaxSpaces}

\* Python's None, and an absent cache entry.
None == [kind |-> "None"]
NoEntry == [kind |-> "NoEntry"]

ttl == 3600

\* Seconds by which the clock moves between two events.
Advances == {1800, 3600}

\* The geocoding service: the JSON body it answers for a name.
NoResults == <<>>
AmritsarResult ==
    [name |-> "Amritsar", admin1 |-> "Punjab", country |-> "India",
     latitude |-> 3163, longitude |-> 7487, timezone |-> "Asia/Kolkata"]

ServiceResults(city_name) ==
    IF city_name = Amritsar THEN <<AmritsarResult>> ELSE NoResults

\* requests.get + raise_for_status either deliver the body or raise
\* requests.RequestException.
Transports == {"ok", "RequestException"}

\* display_name: the non-empty parts joined with ", " (kept as the list of parts).
FullNameParts(result) ==
    SelectSeq(<<result.name, result.admin1, result.country>>, LAMBDA part : part # "")

\* The value geocode_city returns for a transport outcome and a response body.
GeocodeReturn(transport, results) ==
    IF transport = "RequestException" THEN None
    ELSE IF Len(results) > 0
         THEN [kind |-> "Location", latitude |-> results[1].latitude, longitude |-> results[1].longitude,
               display_name |-> FullNameParts(results[1]), timezone |-> results[1].timezone]
         ELSE None

\* What the run records about the request it issued.
Outcome(transport, results) ==
    IF transport = "RequestException" THEN "error"
    ELSE IF Len(results) > 0 THEN "found" ELSE "empty"

\* st.cache_data(ttl=3600): an entry answers until ttl seconds after it was stored.
CacheHit(store, key, t) ==
    /\ store[key] # NoEntry
    /\ t - store[key].at < ttl

\* st.cache_data stores whatever the function returned, None included.
CacheStore_SkipNone(store, key, value, t) ==
    IF value = None THEN store
    ELSE [store EXCEPT ![key] = [kind |-> "Entry", value |-> value, at |-> t]]

CacheStore(store, key, value, t) ==
    [store EXCEPT ![key] = [kind |-> "Entry", value |-> value, at |-> t]]

\* The script's branch on geocode_city's result (lines 342-346).
AfterGeocode_Always(result) == "dashboard"

AfterGeocode(result) == IF result = None THEN "idle" ELSE "dashboard"

\* The script's validation of the text box (line 336).
Rejected(text) == ~Truthy(text)

Invoked(call) == call \in Range(calls)
Shown(message) == message \in Range(messages)

\* ---------------------------------------------------------------- the script
AppInit ==
    /\ city_input = Amritsar
    /\ pc = "idle"
    /\ now = 0
    /\ cache = [k \in CityInputs |-> NoEntry]
    /\ geo_info = None
    /\ messages = <<"info: enter a city name">>
    /\ calls = <<>>
    /\ netOutcome = "none"
    /\ lastNet = [k \in CityInputs |-> NoEntry]

\* The user edits the text box: the script reruns with the button not pressed.
EnterCity ==
    /\ pc = "idle"
    /\ \E text \in CityInputs :
          /\ text # city_input
          /\ city_input' = text
    /\ messages' = <<"info: enter a city name">>
    /\ calls' = <<>>
    /\ geo_info' = None
    /\ netOutcome' = "none"
    /\ UNCHANGED <<pc, now, cache, lastNet, notApp>>

\* The user presses "Get Weather": the script reruns from the top.
PressGetWeather ==
    /\ pc = "idle"
    /\ calls' = <<>>
    /\ geo_info' = None
    /\ netOutcome' = "none"
    /\ IF Rejected(city_input)
       THEN /\ messages' = <<"sidebar error: please enter a city name">>
            /\ pc' = "idle"
       ELSE /\ messages' = <<>>
            /\ pc' = "geocode"
    /\ UNCHANGED <<city_input, now, cache, lastNet, notApp>>

\* geocode_city(city_input) through st.cache_data, then the branch on its result.
GeocodeCity ==
    /\ pc = "geocode"
    /\ IF CacheHit(cache, city_input, now)
       THEN /\ geo_info' = cache[city_input].value
            /\ calls' = Append(calls, "geocode_city")
            /\ messages' = IF cache[city_input].value = None
                           THEN Append(messages, "error: could not find city")
                           ELSE messages
            /\ pc' = AfterGeocode(cache[city_input].value)
            /\ UNCHANGED <<cache, netOutcome, lastNet>>
       ELSE \E transport \in Transports :
              LET results == ServiceResults(city_input)
                  value == GeocodeReturn(transport, results)
                  shown == IF transport = "RequestException"
                           THEN Append(messages, "error: geocoding API error")
                           ELSE messages
              IN  /\ geo_info' = value
                  /\ calls' = calls \o <<"geocode_city", "requests.get">>
                  /\ netOutcome' = Outcome(transport, results)
                  /\ cache' = CacheStore(cache, city_input, value, now)
                  /\ lastNet' = [lastNet EXCEPT ![city_input] = [kind |-> "Entry", value |-> value, at |-> now]]
                  /\ messages' = IF value = None
                                 THEN Append(shown, "error: could not find city")
                                 ELSE shown
                  /\ pc' = AfterGeocode(value)
    /\ UNCHANGED <<city_input, now, notApp>>

\* display_weather_dashboard(geo_info): one client, one get_processed_data,
\* hence one fetch_weather; any exception is caught and shown.
DisplayWeatherDashboard ==
    /\ pc = "dashboard"
    /\ calls' = Append(calls, "fetch_weather")
    /\ \E ok \in BOOLEAN :
          messages' = Append(messages, IF ok THEN "dashboard" ELSE "error: fetching or processing")
    /\ pc' = "idle"
    /\ UNCHANGED <<city_input, now, cache, geo_info, netOutcome, lastNet, notApp>>

\* Time passes.
Tick ==
    /\ \E d \in Advances :
          /\ now + d <= MaxTime
          /\ now' = now + d
    /\ UNCHANGED <<city_input, pc, cache, geo_info, messages, calls, netOutcome, lastNet, notApp>>

AppNext ==
    \/ EnterCity
    \/ PressGetWeather
    \/ GeocodeCity
    \/ DisplayWeatherDashboard
    \/ Tick

\* ---------------------------------------------------------------- WMO codes
\* The dictionary of lines 12-40: each entry is its text, character by character.
WMO_CODES ==
    0 :> <<"C", "l", "e", "a", "r", " ", "s", "k", "y", " ", "U+2600", "U+FE0F">> @@
    1 :> <<"M", "a", "i", "n", "l", "y", " ", "c", "l", "e", "a", "r", " ", "U+1F324",
          "U+FE0F">> @@
    2 :> <<"P", "a", "r", "t", "l", "y", " ", "c", "l", "o", "u", "d", "y", " ", "U+1F325",
          "U+FE0F">> @@
    3 :> <<"O", "v", "e", "r", "c", "a", "s", "t", " ", "U+2601", "U+FE0F">> @@
    45 :> <<"F", "o", "g", " ", "U+1F32B", "U+FE0F">> @@
    48 :> <<"D", "e", "p", "o", "s", "i", "t", "i", "n", "g", " ", "r", "i", "m", "e", " ",
          "f", "o", "g", " ", "U+1F32B", "U+FE0F">> @@
    51 :> <<"L", "i", "g", "h", "t", " ", "d", "r", "i", "z", "z", "l", "e", " ", "U+1F4A7">> @@
    53 :> <<"M", "o", "d", "e", "r", "a", "t", "e", " ", "d", "r", "i", "z", "z", "l", "e",
          " ", "U+1F4A7">> @@
    55 :> <<"D", "e", "n", "s", "e", " ", "d", "r", "i", "z", "z", "l", "e", " ", "U+1F4A7">> @@
    56 :> <<"L", "i", "g", "h", "t", " ", "f", "r", "e", "e", "z", "i", "n", "g", " ", "d",
          "r", "i", "z", "z", "l", "e", " ", "U+1F976">> @@
    57 :> <<"D", "e", "n", "s", "e", " ", "f", "r", "e", "e", "z", "i", "n", "g", " ", "d",
          "r", "i", "z", "z", "l", "e", " ", "U+1F976">> @@
    61 :> <<"S", "l", "i", "g", "h", "t", " ", "r", "a", "i", "n", " ", "U+1F327", "U+FE0F">> @@
    63 :> <<"M", "o", "d", "e", "r", "a", "t", "e", " ", "r", "a", "i", "n", " ", "U+1F327",
          "U+FE0F">> @@
    65 :> <<"H", "e", "a", "v", "y", " ", "r", "a", "i", "n", " ", "U+1F327", "U+FE0F">> @@
    66 :> <<"L", "i", "g", "h", "t", " ", "f", "r", "e", "e", "z", "i", "n", "g", " ", "r",
          "a", "i", "n", " ", "U+1F976">> @@
    67 :> <<"H", "e", "a", "v", "y", " ", "f", "r", "e", "e", "z", "i", "n", "g", " ", "r",
          "a", "i", "n", " ", "U+1F976">> @@
    71 :> <<"S", "l", "i", "g", "h", "t", " ", "s", "n", "o", "w", " ", "f", "a", "l", "l",
          " ", "U+1F328", "U+FE0F">> @@
    73 :> <<"M", "o", "d", "e", "r", "a", "t", "e", " ", "s", "n", "o", "w", " ", "f", "a",
          "l", "l", " ", "U+1F328", "U+FE0F">> @@
    77 :> <<"S", "n", "o", "w", " ", "g", "r", "a", "i", "n", "s", " ", "U+1F328", "U+FE0F">> @@
    80 :> <<"S", "l", "i", "g", "h", "t", " ", "r", "a", "i", "n", " ", "s", "h", "o", "w",
          "e", "r", "s", " ", "U+1F326", "U+FE0F">> @@
    81 :> <<"M", "o", "d", "e", "r", "a", "t", "e", " ", "r", "a", "i", "n", " ", "s", "h",
          "o", "w", "e", "r", "s", " ", "U+1F326", "U+FE0F">> @@
    82 :> <<"V", "i", "o", "l", "e", "n", "t", " ", "r", "a", "i", "n", " ", "s", "h", "o",
          "w", "e", "r", "s", " ", "U+1F326", "U+FE0F">> @@
    85 :> <<"S", "l", "i", "g", "h", "t", " ", "s", "n", "o", "w", " ", "s", "h", "o", "w",
          "e", "r", "s", " ", "U+1F328", "U+FE0F">> @@
    86 :> <<"H", "e", "a", "v", "y", " ", "s", "n", "o", "w", " ", "s", "h", "o", "w", "e",
          "r", "s", " ", "U+1F328", "U+FE0F">> @@
    95 :> <<"T", "h", "u", "n", "d", "e", "r", "s", "t", "o", "r", "m", " ", "U+26C8",
          "U+FE0F">> @@
    96 :> <<"T", "h", "u", "n", "d", "e", "r", "s", "t", "o", "r", "m", ",", " ", "s", "l",
          "i", "g", "h", "t", " ", "h", "a", "i", "l", " ", "U+26C8", "U+FE0F">> @@
    99 :> <<"T", "h", "u", "n", "d", "e", "r", "s", "t", "o", "r", "m", ",", " ", "h", "e",
          "a", "v", "y", " ", "h", "a", "i", "l", " ", "U+26C8", "U+FE0F">>

KnownCodes == DOMAIN WMO_CODES

\* The characters of the table's descriptions; every other element is a code
\* point of an emoji.
AsciiChars ==
    {" ", ",", "/", "C", "D", "F", "H", "L", "M", "N", "O", "P", "S", "T", "V", "A",
     "a", "c", "d", "e", "f", "g", "h", "i", "k", "l", "m", "n", "o", "p", "r", "s",
     "t", "u", "v", "w", "y", "z"}

NA == <<"N", "/", "A">>
QuestionMark == <<"U+2753">>

\* dict.get(key, default)
DictGet(key, default) == IF key \in KnownCodes THEN WMO_CODES[key] ELSE default

\* str.split(sep): the pieces between the occurrences of sep, empty pieces kept.
RECURSIVE Split(_, _)
Split(s, sep) ==
    IF \A i \in 1..Len(s) : s[i] # sep
    THEN <<s>>
    ELSE LET k == CHOOSE i \in 1..Len(s) : s[i] = sep /\ \A j \in 1..(i - 1) : s[j] # sep
         IN  <<SubSeq(s, 1, k - 1)>> \o Split(SubSeq(s, k + 1, Len(s)), sep)

\* Line 229: the "Status" metric of the current weather.
CurrentStatus(code) == DictGet(code, NA)

\* Line 259: the icon of a next-hours card.
HourlyIcon(code) == Split(DictGet(code, QuestionMark), Space)[1]

\* Line 306: Series.map(WMO_CODES).fillna("N/A") of the 7-day outlook.
DailyDesc(code) == DictGet(code, NA)

\* Line 307: the icon of a 7-day card.
DailyIcon(code) == Split(DailyDesc(code), Space)[1]

NotRendered == <<>>

WmoIdle ==
    /\ weather_code = 0
    /\ wmo_pc = "off"
    /\ weather_desc = NotRendered
    /\ hour_icon = NotRendered
    /\ day_desc = NotRendered
    /\ day_icon = NotRendered

\* A response carries any integer code: the table's and others.
WmoInit ==
    /\ weather_code \in (-1)..MaxCode
    /\ wmo_pc = "render"
    /\ weather_desc = NotRendered
    /\ hour_icon = NotRendered
    /\ day_desc = NotRendered
    /\ day_icon = NotRendered

\* The three places display_weather_dashboard looks a code up.
RenderCode ==
    /\ wmo_pc = "render"
    /\ weather_desc' = CurrentStatus(weather_code)
    /\ hour_icon' = HourlyIcon(weather_code)
    /\ day_desc' = DailyDesc(weather_code)
    /\ day_icon' = DailyIcon(weather_code)
    /\ wmo_pc' = "done"
    /\ UNCHANGED <<weather_code, notWmo>>

WmoNext == RenderCode

\* ---------------------------------------------------------------- the forecast request
\* _get_params: the three variable lists, in the order they are sent.
DailyVars ==
    <<"weather_code", "temperature_2m_max", "temperature_2m_min", "apparent_temperature_max",
      "apparent_temperature_min", "sunset", "sunrise", "precipitation_sum",
      "precipitation_probability_max", "wind_speed_10m_max", "uv_index_max">>

HourlyVars ==
    <<"temperature_2m", "relative_humidity_2m", "weather_code", "pressure_msl", "surface_pressure",
      "dew_point_2m", "precipitation", "precipitation_probability", "cloud_cover",
      "visibility", "wind_speed_10m", "wind_gusts_10m", "apparent_temperature",
      "soil_temperature_0cm", "soil_temperature_6cm", "soil_temperature_18cm", "soil_temperature_54cm",
      "soil_moisture_0_to_1cm", "soil_moisture_1_to_3cm", "soil_moisture_3_to_9cm",
      "soil_moisture_9_to_27cm", "soil_moisture_27_to_81cm">>

CurrentVars ==
    <<"temperature_2m", "relative_humidity_2m", "apparent_temperature", "is_day", "precipitation",
      "weather_code", "cloud_cover", "wind_speed_10m", "wind_gusts_10m", "uv_index">>

GetParams(latitude, longitude) ==
    [latitude |-> latitude, longitude |-> longitude, timezone |-> "auto",
     daily |-> DailyVars, hourly |-> HourlyVars, current |-> CurrentVars]

\* ---------------------------------------------------------------- the forecast service
\* A vector of a response variable: present with its data, or absent.
Absent == [has |-> FALSE, data |-> <<>>]
Vector(data) == [has |-> TRUE, data |-> data]

\* The number the service puts in row j of the slot at position i of a section.
Reading(seed, section, i, j) == seed + 1000 * section + 50 * i + j

IsEpochVariable(name) == name \in {"sunrise", "sunset"}

\* The service answers the request positionally: slot i holds the i-th
\* requested variable, epoch-second variables in the int64 vector and every
\* other variable in the float vector, each with `rows` entries.
Slot(seed, section, name, i, rows) ==
    [value |-> Reading(seed, section, i, 0),
     values |-> IF IsEpochVariable(name) THEN Absent
                ELSE Vector([j \in 1..rows |-> Reading(seed, section, i, j)]),
     values_int64 |-> IF IsEpochVariable(name)
                      THEN Vector([j \in 1..rows |-> Reading(seed, section, i, j)])
                      ELSE Absent]

\* The number of instants of a series from start (included) to end (excluded).
Steps(span, interval) == (span + interval - 1) \div interval

\* What can be wrong with a response.
Faults == {"none", "hourly column short", "daily slot missing"}

Series(seed, section, names, start, span, interval, short, missing) ==
    LET rows == Steps(span, interval)
        sent == IF short /\ rows > 0 THEN rows - 1 ELSE rows
        slots == IF missing THEN Len(names) - 1 ELSE Len(names)
    IN  [Time |-> start, TimeEnd |-> start + span, Interval |-> interval,
         Variables |-> [i \in 1..slots |-> Slot(seed, section, names[i], i, sent)]]

WeatherApi(params, seed, start, hspan, hinterval, dspan, dinterval, fault) ==
    [Current |-> [Time |-> start,
                  Variables |-> [i \in 1..Len(params.current) |->
                                    Slot(seed, 1, params.current[i], i, 0)]],
     Hourly |-> Series(seed, 2, params.hourly, start, hspan, hinterval,
                       fault = "hourly column short", FALSE),
     Daily |-> Series(seed, 3, params.daily, start, dspan, dinterval,
                      FALSE, fault = "daily slot missing")]

\* ---------------------------------------------------------------- the projections
\* pd.to_datetime(seconds, unit="s", utc=True)
ToDatetime(seconds) == [epoch |-> seconds, tz |-> "UTC"]

\* pd.date_range(start, end, freq) with both ends.
ClosedRange(start, end, freq) ==
    IF end < start THEN <<>>
    ELSE [j \in 1..((end - start) \div freq + 1) |-> ToDatetime(start + (j - 1) * freq)]

\* pd.date_range(start, end, freq, inclusive="left"): the end, when hit, is dropped.
DateRange(start, end, freq) ==
    LET r == ClosedRange(start, end, freq)
    IN  IF Len(r) > 0 /\ r[Len(r)].epoch = end THEN SubSeq(r, 1, Len(r) - 1) ELSE r

\* A value handed to pd.DataFrame: an array, or a scalar (what the accessors
\* return for an absent vector).
Array(data) == [kind |-> "array", data |-> data]
Scalar(x) == [kind |-> "scalar", data |-> <<x>>]

ValuesAsNumpy(variable) ==
    IF variable.values.has THEN Array(variable.values.data) ELSE Scalar(0)

ValuesInt64AsNumpy(variable) ==
    IF variable.values_int64.has THEN Array(variable.values_int64.data) ELSE Scalar(0)

\* The position whose assignment a dict keeps for a key: the last one.
KeyIndex(names, name) ==
    CHOOSE i \in 1..Len(names) : names[i] = name /\ \A j \in (i + 1)..Len(names) : names[j] # name

\* Variables(i) exists for every requested position.
HasSlots(section, names) == Len(section.Variables) >= Len(names)

\* pd.DataFrame(data) accepts arrays of one length and broadcasts scalars.
FrameOk_Unchecked(data) == TRUE

FrameOk(data) ==
    \A c \in DOMAIN data :
       data[c].kind = "array" => Len(data[c].data) = Len(data["date"].data)

DataFrame(data) ==
    [c \in DOMAIN data |->
        IF data[c].kind = "scalar"
        THEN [j \in 1..Len(data["date"].data) |-> data[c].data[1]]
        ELSE data[c].data]

TimeAxis(section) ==
    Array(DateRange(section.Time, section.TimeEnd, section.Interval))

ProcessCurrentData(resp, current_vars) ==
    [k \in {"time"} \cup Range(current_vars) |->
        IF k = "time" THEN ToDatetime(resp.Current.Time)
        ELSE resp.Current.Variables[KeyIndex(current_vars, k)].value]

HourlyData(resp, hourly_vars) ==
    [k \in {"date"} \cup Range(hourly_vars) |->
        IF k = "date" THEN TimeAxis(resp.Hourly)
        ELSE ValuesAsNumpy(resp.Hourly.Variables[KeyIndex(hourly_vars, k)])]

ProcessHourlyData(resp, hourly_vars) == DataFrame(HourlyData(resp, hourly_vars))

\* The branch of line 180.
UsesInt64Path_Never(var) == FALSE

UsesInt64Path(var) == var \in {"sunrise", "sunset"}

DailyData(resp, daily_vars) ==
    [k \in {"date"} \cup Range(daily_vars) |->
        IF k = "date" THEN TimeAxis(resp.Daily)
        ELSE IF UsesInt64Path(k)
             THEN ValuesInt64AsNumpy(resp.Daily.Variables[KeyIndex(daily_vars, k)])
             ELSE ValuesAsNumpy(resp.Daily.Variables[KeyIndex(daily_vars, k)])]

\* Lines 185-191: the frame, then sunrise and sunset as datetimes.
ProcessDailyData(resp, daily_vars) ==
    LET frame == DataFrame(DailyData(resp, daily_vars))
    IN  [c \in DOMAIN frame |->
            IF c \in {"sunrise", "sunset"}
            THEN [j \in 1..Len(frame[c]) |-> ToDatetime(frame[c][j])]
            ELSE frame[c]]

\* The accessor each position of the daily list was decoded with.
DailyPaths(daily_vars) ==
    [i \in 1..Len(daily_vars) |-> IF UsesInt64Path(daily_vars[i]) THEN "int64" ELSE "float"]

\* Swapping two neighbours of the daily list.
DecodeLists_Reordered(params) ==
    [params EXCEPT !.daily = [i \in 1..Len(params.daily) |->
                                 IF i = 6 THEN params.daily[7]
                                 ELSE IF i = 7 THEN params.daily[6] ELSE params.daily[i]]]

\* get_processed_data decodes with the params fetch_weather returned, which
\* are the params it sent.
DecodeLists(params) == params

Nothing == [kind |-> "nothing"]

NoRequest == [kind |-> "none"]

ProjIdle ==
    /\ proj_pc = "start"
    /\ request = NoRequest
    /\ response = Nothing
    /\ decode_lists = Nothing
    /\ current_data = Nothing
    /\ hourly_df = Nothing
    /\ daily_df = Nothing
    /\ daily_paths = <<>>

\* get_processed_data: fetch_weather, then the three projections.  An
\* exception of a projection leaves the caller without any table.
GetProcessedData ==
    /\ proj_pc = "start"
    /\ \E seed \in Seeds, start \in Starts, fault \in Faults,
          hspan \in 0..MaxSpan, hinterval \in 1..MaxInterval,
          dspan \in 0..MaxSpan, dinterval \in 1..MaxInterval :
          LET params == GetParams(AmritsarResult.latitude, AmritsarResult.longitude)
              answer == WeatherApi(params, seed, start, hspan, hinterval, dspan, dinterval, fault)
              lists == DecodeLists(params)
              ok == /\ HasSlots(answer.Current, lists.current)
                    /\ HasSlots(answer.Hourly, lists.hourly)
                    /\ HasSlots(answer.Daily, lists.daily)
                    /\ FrameOk(HourlyData(answer, lists.hourly))
                    /\ FrameOk(DailyData(answer, lists.daily))
          IN  /\ request' = params
              /\ response' = answer
              /\ decode_lists' = lists
              /\ IF ok
                 THEN /\ current_data' = ProcessCurrentData(answer, lists.current)
                      /\ hourly_df' = ProcessHourlyData(answer, lists.hourly)
                      /\ daily_df' = ProcessDailyData(answer, lists.daily)
                      /\ daily_paths' = DailyPaths(lists.daily)
                      /\ proj_pc' = "done"
                 ELSE /\ UNCHANGED <<current_data, hourly_df, daily_df, daily_paths>>
                      /\ proj_pc' = "raised"
    /\ UNCHANGED notProj

\* The next press builds a new client.
NewClient ==
    /\ proj_pc \in {"done", "raised"}
    /\ proj_pc' = "start"
    /\ request' = NoRequest
    /\ response' = Nothing
    /\ decode_lists' = Nothing
    /\ current_data' = Nothing
    /\ hourly_df' = Nothing
    /\ daily_df' = Nothing
    /\ daily_paths' = <<>>
    /\ UNCHANGED notProj

ProjNext ==
    \/ GetProcessedData
    \/ NewClient

\* ---------------------------------------------------------------- next 8 hours
\* Series.dt.tz_convert / Timestamp.tz_convert: the same instant, in another zone.
TzConvert(ts, tz) == [ts EXCEPT !.tz = tz]

\* Comparison of two timezone-aware timestamps: by instant.
AtOrAfter_Strict(a, b) == a.epoch > b.epoch

AtOrAfter(a, b) == a.epoch >= b.epoch

\* DataFrame.head(n)
FrameHead(rows, n) == SubSeq(rows, 1, IF Len(rows) < n THEN Len(rows) ELSE n)

\* The number of cards of line 253.
NextHoursCount == 8

\* Line 252: the date_local column.
WithDateLocal(rows, tz) ==
    [j \in 1..Len(rows) |->
        [index |-> rows[j].index, date |-> rows[j].date, date_local |-> TzConvert(rows[j].date, tz)]]

\* Line 253: hourly_df[hourly_df['date_local'] >= now_local].head(8)
NextHours(rows, now_at) ==
    FrameHead(SelectSeq(rows, LAMBDA row : AtOrAfter(row.date_local, now_at)), NextHoursCount)

\* The hourly frame as rows: the row label and the date of the time axis.
HourlyRows(start, count, interval) ==
    LET axis == DateRange(start, start + count * interval, interval)
    IN  [j \in 1..Len(axis) |-> [index |-> j - 1, date |-> axis[j]]]

Zones == {"UTC", "Asia/Kolkata"}

NextIdle ==
    /\ next_pc = "off"
    /\ hourly_rows = <<>>
    /\ local_tz = "UTC"
    /\ now_local = ToDatetime(0)
    /\ next_hours_df = <<>>

\* An hourly table of the projection and the wall clock at render time.
NextInit ==
    /\ next_pc = "render"
    /\ \E start \in Starts, count \in 0..MaxRows, interval \in 1..MaxInterval :
          hourly_rows = HourlyRows(start, count, interval)
    /\ local_tz \in Zones
    /\ \E t \in 0..MaxNow : now_local = TzConvert(ToDatetime(t), local_tz)
    /\ next_hours_df = <<>>

\* Lines 248-253 of display_weather_dashboard.
RenderNextHours ==
    /\ next_pc = "render"
    /\ hourly_rows' = WithDateLocal(hourly_rows, local_tz)
    /\ next_hours_df' = NextHours(WithDateLocal(hourly_rows, local_tz), now_local)
    /\ next_pc' = "done"
    /\ UNCHANGED <<local_tz, now_local, notNext>>

NextHoursNext == RenderNextHours

\* ---------------------------------------------------------------- claims
CountOf(s, x) == Cardinality({i \in 1..Len(s) : s[i] = x})

\* C1: in every run started by one press of "Get Weather", geocode_city is
\* invoked at most once and fetch_weather at most once, fetch_weather comes
\* only after geocode_city has returned a Location, and there is no
\* fetch_weather when the input was rejected or geocode_city returned None.
C1_OneGeocodeThenOneFetch ==
    /\ CountOf(calls, "geocode_city") <= 1
    /\ CountOf(calls, "fetch_weather") <= 1
    /\ \A i \in 1..Len(calls) :
          calls[i] = "fetch_weather" =>
             /\ \E j \in 1..(i - 1) : calls[j] = "geocode_city"
             /\ geo_info # None
             /\ geo_info.kind = "Location"
    /\ pc = "dashboard" => Invoked("geocode_city") /\ geo_info # None
    /\ Shown("sidebar error: please enter a city name") =>
          ~Invoked("geocode_city") /\ ~Invoked("fetch_weather") /\ pc = "idle"
    /\ (pc = "idle" /\ geo_info = None) => ~Invoked("fetch_weather")

\* A run that located the city over the network and then fetched the forecast.
C1_Witness ==
    /\ pc = "idle"
    /\ calls = <<"geocode_city", "requests.get", "fetch_weather">>
    /\ geo_info # None

\* C2: what geocode_city hands its caller after a transport failure differs
\* from what it hands it for an empty result set, and the caller does not
\* report a transport failure as "city not found".
C2_NotFoundDistinctFromError ==
    netOutcome = "error" =>
       /\ geo_info # GeocodeReturn("ok", NoResults)
       /\ ~Shown("error: could not find city")

\* Text that is empty or holds nothing but spaces.
IsWhitespace(s) == \A i \in 1..Len(s) : s[i] = Space

\* C3: an input that is empty or all whitespace never reaches geocode_city
\* and causes no network request.
C3_BlankNeverGeocoded ==
    IsWhitespace(city_input) =>
       ~Invoked("geocode_city") /\ ~Invoked("requests.get")

IsGlyph(token) == Len(token) > 0 /\ \A i \in 1..Len(token) : token[i] \notin AsciiChars

\* The emoji an entry of the table carries.
GlyphOf(entry) == SelectSeq(entry, LAMBDA c : c \notin AsciiChars)

\* C5: for every code of the table the description is not empty and the icon
\* the presenter extracts, in the next-hours cards and in the 7-day outlook,
\* is the entry's emoji and not a word of its description.
C5_IconIsGlyph ==
    (wmo_pc = "done" /\ weather_code \in KnownCodes) =>
       /\ Len(weather_desc) > 0
       /\ Len(day_desc) > 0
       /\ IsGlyph(hour_icon) /\ hour_icon = GlyphOf(WMO_CODES[weather_code])
       /\ IsGlyph(day_icon) /\ day_icon = GlyphOf(WMO_CODES[weather_code])

\* C6: for every code outside the table, the three lookup sites give the
\* same fallback: description "N/A" and icon U+2753.
C6_SameFallback ==
    (wmo_pc = "done" /\ weather_code \notin KnownCodes) =>
       /\ weather_desc = NA
       /\ hour_icon = QuestionMark
       /\ day_desc = NA
       /\ day_icon = QuestionMark

\* The numbers of a decoded column: a datetime counts as its epoch seconds.
Epochs(column) == [j \in 1..Len(column) |-> column[j].epoch]

\* The data the service put in a slot, whichever vector holds it.
SlotData(slot) == IF slot.values_int64.has THEN slot.values_int64.data ELSE slot.values.data

\* C8: in every run of get_processed_data the lists the three sections are
\* decoded with are the lists that were sent, and what is stored under the
\* name of the i-th requested variable is the response's i-th slot.
C8_DecodedAsRequested ==
    /\ proj_pc \in {"done", "raised"} =>
          /\ decode_lists.current = request.current
          /\ decode_lists.hourly = request.hourly
          /\ decode_lists.daily = request.daily
    /\ proj_pc = "done" =>
       /\ \A i \in 1..Len(request.current) :
             current_data[request.current[i]] = response.Current.Variables[i].value
       /\ \A i \in 1..Len(request.hourly) :
             hourly_df[request.hourly[i]] = SlotData(response.Hourly.Variables[i])
       /\ \A i \in 1..Len(request.daily) :
             LET column == daily_df[request.daily[i]]
             IN  SlotData(response.Daily.Variables[i]) =
                    IF IsEpochVariable(request.daily[i]) THEN Epochs(column) ELSE column

\* A run that decoded three sections with rows in both tables.
C8_Witness ==
    /\ proj_pc = "done"
    /\ Len(hourly_df["date"]) >= 2
    /\ Len(daily_df["date"]) >= 2
    /\ daily_df["sunset"] # daily_df["sunrise"]

\* ceil(span / interval) for span >= 0.
Ceil(span, interval) == IF span % interval = 0 THEN span \div interval ELSE span \div interval + 1

RowsAsSpecified(frame, section, names) ==
    LET n == Len(frame["date"])
    IN  /\ n = Ceil(section.TimeEnd - section.Time, section.Interval)
        /\ \A j \in 1..n :
              /\ frame["date"][j] = ToDatetime(section.Time + (j - 1) * section.Interval)
              /\ frame["date"][j].epoch < section.TimeEnd
        /\ \A i \in 1..Len(names) : Len(frame[names[i]]) = n

C10_DualDecode ==
    proj_pc = "done" =>
       \A i \in 1..Len(request.daily) :
          LET name == request.daily[i]
              slot == response.Daily.Variables[i]
          IN  IF name \in {"sunrise", "sunset"}
              THEN /\ daily_paths[i] = "int64"
                   /\ daily_df[name] = [j \in 1..Len(daily_df["date"]) |->
                                           ToDatetime(slot.values_int64.data[j])]
              ELSE /\ daily_paths[i] = "float"
                   /\ daily_df[name] = slot.values.data

\* A daily table with rows, sunrise and sunset decoded to datetimes.
C10_Witness ==
    /\ proj_pc = "done"
    /\ Len(daily_df["date"]) >= 2
    /\ daily_paths[6] = "int64" /\ daily_paths[7] = "int64" /\ daily_paths[1] = "float"
    /\ daily_df["sunrise"][2] = ToDatetime(response.Daily.Variables[7].values_int64.data[2])

\* The rows of the rendered table that are not before now_local.
Qualifying == {j \in 1..Len(hourly_rows) : hourly_rows[j].date.epoch >= now_local.epoch}

Init == AppInit /\ WmoIdle /\ ProjIdle /\ NextIdle

Spec == Init /\ [][AppNext]_vars

\* The code lookups, over every code.
InitWmo == AppInit /\ WmoInit /\ ProjIdle /\ NextIdle

SpecWmo == InitWmo /\ [][WmoNext]_vars

\* get_processed_data, over the responses of the service.
InitProj == AppInit /\ WmoIdle /\ ProjIdle /\ NextIdle

SpecProj == InitProj /\ [][ProjNext]_vars

\* The next-hours slice, over hourly tables and wall-clock times.
InitNext == AppInit /\ WmoIdle /\ ProjIdle /\ NextInit

SpecNext == InitNext /\ [][NextHoursNext]_vars

====
